---- MODULE Spec2Model ----
(***************************************************************************)
(* Gene Melody Player (gene_melody_streamlit.py): a DNA text is filtered   *)
(* to the bases A/T/C/G, each base becomes a note-on/note-off pair in a    *)
(* single MIDI track, and the track is saved as a Standard MIDI File that  *)
(* is either played through the mixer or offered as a download.            *)
(*                                                                         *)
(* Characters are one-character strings ("A", "x"), except "U+FB06", which *)
(* stands for the single code point LATIN SMALL LIGATURE ST.  Bytes are    *)
(* integers 0..255 and files are sequences of bytes.  The MIDI object      *)
(* model the program uses (MidiFile, MidiTrack, Message, MetaMessage,      *)
(* bpm2tempo) is mido's; each of its operations is modelled at the         *)
(* source line that invokes it.                                            *)
(***************************************************************************)
EXTENDS Integers, Sequences, FiniteSets, TLC

VARIABLES
    dna_input,           \* st.text_area content / raw text: sequence of characters
    bpm,                 \* st.slider value / bpm argument
    instrument_program,  \* program parsed from st.selectbox / program argument
    files,               \* paths of the temporary files that exist
    midi_path,           \* path used by the last action (0: none)
    content,             \* bytes of the file at midi_path as last written
    button,              \* the st.button that returned True in the last run
    ui,                  \* elements the last page run rendered
    exc,                 \* exception that escaped the last call ("none": returned)
    mixer,               \* what the mixer did in the last run
    download,            \* bytes handed to st.download_button in the last run
    pc,                  \* position of a direct call: "ready" | "done"
    value,               \* delta-time handed to the variable-length encoder
    encoded              \* its encoding

vars == << dna_input, bpm, instrument_program, files, midi_path, content, button,
           ui, exc, mixer, download, pc, value, encoded >>

(***************************************************************************)
(* Bounds of the model.                                                    *)
(***************************************************************************)
MaxSeqLen == 4        \* longest text / sequence of a direct call
MaxInputLen == 2      \* longest text typed into the page
MaxTmp == 2           \* temporary files that may exist at once
MaxDelta == 16400     \* largest delta-time of the contiguous range encoded

(***************************************************************************)
(* Constants of the program.                                               *)
(***************************************************************************)
BASE_NOTE_MAP == [b \in {"A", "T", "C", "G"} |->
                    CASE b = "A" -> 60 [] b = "T" -> 62
                      [] b = "C" -> 64 [] b = "G" -> 67]

INSTRUMENTS == {0, 40, 41, 56, 60, 73, 81, 89}

BpmMin == 60
BpmMax == 240
BpmDefault == 120
ProgramDefault == 81
NoteVelocity == 100
NoteOffTime == 200
MidiFileType == 1          \* MidiFile(): type defaults to 1
TicksPerBeat == 480        \* MidiFile(): ticks_per_beat defaults to 480

(***************************************************************************)
(* Helpers on sequences and bytes.                                         *)
(***************************************************************************)
RECURSIVE Flatten(_)
Flatten(ss) == IF ss = << >> THEN << >> ELSE Head(ss) \o Flatten(Tail(ss))

RECURSIVE Pow(_, _)
Pow(b, e) == IF e = 0 THEN 1 ELSE b * Pow(b, e - 1)

\* struct.pack big-endian, k bytes
BigEndian(n, k) == [i \in 1..k |-> (n \div Pow(256, k - i)) % 256]

SeqsUpTo(S, n) == UNION {[1..k -> S] : k \in 0..n}

(***************************************************************************)
(* str.upper() on one character.  Most characters map to one character;    *)
(* the ligature U+FB06 has the full case mapping "ST" (two characters).    *)
(***************************************************************************)
upper_char(c) ==
    CASE c = "a" -> << "A" >>
      [] c = "t" -> << "T" >>
      [] c = "c" -> << "C" >>
      [] c = "g" -> << "G" >>
      [] c = "x" -> << "X" >>
      [] c = "U+FB06" -> << "S", "T" >>
      [] OTHER -> << c >>

\* dna_input.upper()
upper(s) == Flatten([i \in 1..Len(s) |-> upper_char(s[i])])

\* ''.join([base for base in dna_input.upper() if base in BASE_NOTE_MAP])
filter_bases(s) == SelectSeq(upper(s), LAMBDA base : base \in DOMAIN BASE_NOTE_MAP)

(***************************************************************************)
(* Messages of the track.                                                  *)
(***************************************************************************)
\* mutant: the data byte is not range-checked
check_data_byte_any(v) == TRUE

\* a data byte of a channel message must be in 0..127, else ValueError
check_data_byte(v) == v \in 0..127

\* the tempo of a set_tempo meta message must fit 3 bytes, else ValueError
check_tempo(t) == t \in 0..(Pow(2, 24) - 1)

StatusByte(type) ==
    CASE type = "note_off" -> 128
      [] type = "note_on" -> 144
      [] type = "program_change" -> 192

\* Message(type, ..., time=time) on channel 0; data: the data bytes in wire order
Message(type, data, time) ==
    [type |-> type, is_meta |-> FALSE, data |-> data, time |-> time]

\* MetaMessage(type, ..., time=time); data: the payload bytes
MetaMessage(type, data, time) ==
    [type |-> type, is_meta |-> TRUE, data |-> data, time |-> time]

\* the constructor's check of a channel message's data bytes
message_valid(msg) == msg.is_meta \/ \A i \in 1..Len(msg.data) : check_data_byte(msg.data[i])

\* mutant: int() without round()
bpm2tempo_truncated(b) == 60000000 \div b

\* bpm2tempo(bpm) = int(round(60 * 1e6 / bpm)), round() rounding halves to even
bpm2tempo(b) ==
    LET q == 60000000 \div b
        r == 60000000 % b
    IN  IF 2 * r < b THEN q
        ELSE IF 2 * r > b THEN q + 1
        ELSE IF q % 2 = 0 THEN q ELSE q + 1

\* the two messages appended for one base (none when the base is not mapped)
note_messages(base) ==
    IF base \in DOMAIN BASE_NOTE_MAP /\ BASE_NOTE_MAP[base] # 0
    THEN << Message("note_on", << BASE_NOTE_MAP[base], NoteVelocity >>, 0),
            Message("note_off", << BASE_NOTE_MAP[base], NoteVelocity >>, NoteOffTime) >>
    ELSE << >>

\* the track built by dna_to_midi_file before midi.save
build_track(dna_sequence, b, program) ==
    << Message("program_change", << program >>, 0),
       MetaMessage("set_tempo", BigEndian(bpm2tempo(b), 3), 0) >>
    \o Flatten([i \in 1..Len(dna_sequence) |-> note_messages(dna_sequence[i])])

(***************************************************************************)
(* midi.save(filename): the bytes of the file.                             *)
(***************************************************************************)
RECURSIVE SevenBitGroups(_)
\* 7-bit groups of v, least significant first (the loop of the encoder)
SevenBitGroups(v) == IF v = 0 THEN << >> ELSE << v % 128 >> \o SevenBitGroups(v \div 128)

\* mutant: the groups are not reversed (least significant first)
encode_variable_int_unreversed(v) ==
    LET g == SevenBitGroups(v)
        n == Len(g)
    IN  IF n = 0 THEN << 0 >>
        ELSE [i \in 1..n |-> IF i < n THEN g[i] + 128 ELSE g[i]]

\* variable-length quantity: groups reversed, high bit set on all but the last
encode_variable_int(v) ==
    LET g == SevenBitGroups(v)
        n == Len(g)
    IN  IF n = 0 THEN << 0 >>
        ELSE [i \in 1..n |-> IF i < n THEN g[n + 1 - i] + 128 ELSE g[n + 1 - i]]

MetaTypeByte(type) ==
    CASE type = "set_tempo" -> 81
      [] type = "end_of_track" -> 47

\* msg.bytes()
message_bytes(msg) ==
    IF msg.is_meta
    THEN << 255, MetaTypeByte(msg.type) >> \o encode_variable_int(Len(msg.data)) \o msg.data
    ELSE << StatusByte(msg.type) >> \o msg.data

\* mutant: no end_of_track is appended
fix_end_of_track_none(track) == SelectSeq(track, LAMBDA m : m.type # "end_of_track")

\* the track as written: end_of_track messages inside it dropped, one appended
fix_end_of_track(track) ==
    SelectSeq(track, LAMBDA m : m.type # "end_of_track")
    \o << MetaMessage("end_of_track", << >>, 0) >>

RECURSIVE write_messages(_, _)
\* delta-time then message, a channel message omitting a repeated status byte
write_messages(msgs, running_status) ==
    IF msgs = << >> THEN << >>
    ELSE LET msg == Head(msgs)
             raw == message_bytes(msg)
         IN  encode_variable_int(msg.time)
             \o (IF msg.is_meta THEN raw
                 ELSE IF raw[1] = running_status THEN Tail(raw) ELSE raw)
             \o write_messages(Tail(msgs), IF msg.is_meta THEN -1 ELSE raw[1])

\* mutant: the length counts the chunk's own tag and length bytes
write_chunk_counting_head(name, data) == name \o BigEndian(Len(data) + 8, 4) \o data

\* write_chunk: 4-byte name, 4-byte big-endian length, data
write_chunk(name, data) == name \o BigEndian(Len(data), 4) \o data

\* mutant: the division is left out of the header
header_chunk_without_division(type, ntracks, ticks_per_beat) ==
    << 77, 84, 104, 100 >> \o BigEndian(4, 4) \o BigEndian(type, 2) \o BigEndian(ntracks, 2)

\* the header chunk: struct.pack('>hhh', type, len(tracks), ticks_per_beat)
header_chunk(type, ntracks, ticks_per_beat) ==
    write_chunk(<< 77, 84, 104, 100 >>,
                BigEndian(type, 2) \o BigEndian(ntracks, 2) \o BigEndian(ticks_per_beat, 2))

track_chunk(track) ==
    write_chunk(<< 77, 84, 114, 107 >>, write_messages(fix_end_of_track(track), -1))

\* the whole file of a MidiFile holding the one track
save_bytes(track) == header_chunk(MidiFileType, 1, TicksPerBeat) \o track_chunk(track)

(***************************************************************************)
(* dna_to_midi_file(dna_sequence, filename, bpm, program).  io: what the   *)
(* file system does to midi.save ("ok", "open_fails": the file is left as  *)
(* it was, "write_fails": the header chunk reaches the file and the next   *)
(* write raises).  Result: the exception raised and the file's content.    *)
(***************************************************************************)
SaveOutcomes == {"ok", "open_fails", "write_fails"}

dna_to_midi_file(dna_sequence, old_content, b, program, io) ==
    LET track == build_track(dna_sequence, b, program)
    IN
    IF \/ \E i \in 1..Len(track) : ~message_valid(track[i])
       \/ ~check_tempo(bpm2tempo(b))
    THEN [exc |-> "ValueError", content |-> old_content]
    ELSE CASE io = "ok" ->
                [exc |-> "none", content |-> save_bytes(track)]
           [] io = "open_fails" ->
                [exc |-> "OSError", content |-> old_content]
           [] io = "write_fails" ->
                [exc |-> "OSError", content |-> header_chunk(MidiFileType, 1, TicksPerBeat)]

(***************************************************************************)
(* The page: one run of main() per widget change or button click.          *)
(***************************************************************************)
UiAlphabet == {"A", "g", "x", "U+FB06"}
UiBpms == {BpmMin, BpmDefault, BpmMax}
PlayOutcomes == {"ok", "init_fails", "load_fails", "play_fails"}
ReadOutcomes == {"ok", "read_fails"}

\* tempfile.NamedTemporaryFile(delete=False, suffix=".mid"): a path not in use
new_tmp_path == CHOOSE p \in 1..(MaxTmp + 1) : p \notin files /\ \A q \in 1..(p - 1) : q \in files

\* play_midi_with_pygame(midi_path): "none" when it returns, else the exception
play_midi_with_pygame(outcome) == IF outcome = "ok" THEN "none" ELSE "pygame.error"

\* mutant: no except clause, the exception leaves the try statement
playback_try_uncaught(raised) == [escaped |-> raised, shown |-> {}]

\* lines 102-105: what the try/except around the playback lets out of it
playback_try(raised) ==
    [escaped |-> "none",
     shown   |-> IF raised = "none" THEN {} ELSE {"playback_error"}]

\* mutant: the empty result is not rejected
is_empty_dna_never(dna) == FALSE

\* "if not dna:" (lines 93 and 113)
is_empty_dna(dna) == dna = << >>

\* lines 91-108, then 111 (not clicked) and 126: the run of a Play click
play_clicked(io, outcome) ==
    LET dna == filter_bases(dna_input)
        p   == new_tmp_path
        r   == dna_to_midi_file(dna, << >>, bpm, instrument_program, io)
        t   == playback_try(play_midi_with_pygame(outcome))
    IN  IF is_empty_dna(dna)
        THEN [ui |-> {"error_invalid"}, exc |-> "none", files |-> files,
              midi_path |-> 0, content |-> << >>, mixer |-> "idle", download |-> << >>]
        ELSE IF r.exc # "none"
        THEN [ui |-> {}, exc |-> r.exc, files |-> files \cup {p},
              midi_path |-> p, content |-> r.content, mixer |-> "idle", download |-> << >>]
        ELSE IF t.escaped # "none"
        THEN [ui |-> {"success"}, exc |-> t.escaped, files |-> files,
              midi_path |-> p, content |-> << >>,
              mixer |-> "failed", download |-> << >>]
        ELSE [ui |-> {"success", "footer"} \cup t.shown, exc |-> "none", files |-> files,
              midi_path |-> p, content |-> << >>,
              mixer |-> IF outcome = "ok" THEN "played" ELSE "failed",
              download |-> << >>]

\* lines 91 (not clicked), 111-123 and 126: the run of a Download click
download_clicked(io, rd) ==
    LET dna == filter_bases(dna_input)
        p   == new_tmp_path
        r   == dna_to_midi_file(dna, << >>, bpm, instrument_program, io)
    IN  IF is_empty_dna(dna)
        THEN [ui |-> {"error_invalid"}, exc |-> "none", files |-> files,
              midi_path |-> 0, content |-> << >>, mixer |-> "idle", download |-> << >>]
        ELSE IF r.exc # "none"
        THEN [ui |-> {}, exc |-> r.exc, files |-> files \cup {p},
              midi_path |-> p, content |-> r.content, mixer |-> "idle", download |-> << >>]
        ELSE IF rd # "ok"
        THEN [ui |-> {}, exc |-> "OSError", files |-> files \cup {p},
              midi_path |-> p, content |-> r.content, mixer |-> "idle", download |-> << >>]
        ELSE [ui |-> {"download_button", "footer"}, exc |-> "none", files |-> files,
              midi_path |-> p, content |-> << >>, mixer |-> "idle",
              download |-> r.content]

\* a run of main() with no button clicked: the widgets and the footer
rerun_unclicked ==
    /\ ui' = {"footer"}
    /\ exc' = "none"
    /\ mixer' = "idle"
    /\ download' = << >>
    /\ midi_path' = 0
    /\ content' = << >>
    /\ button' = "none"
    /\ UNCHANGED << files, pc, value, encoded >>

Init ==
    /\ dna_input = << >>
    /\ bpm = BpmDefault
    /\ instrument_program = 0
    /\ files = {}
    /\ midi_path = 0
    /\ content = << >>
    /\ button = "none"
    /\ ui = {"footer"}
    /\ exc = "none"
    /\ mixer = "idle"
    /\ download = << >>
    /\ pc = "page"
    /\ value = 0
    /\ encoded = << >>

TypeChar(c) ==
    /\ Len(dna_input) < MaxInputLen
    /\ dna_input' = Append(dna_input, c)
    /\ UNCHANGED << bpm, instrument_program >>
    /\ rerun_unclicked

ClearInput ==
    /\ dna_input # << >>
    /\ dna_input' = << >>
    /\ UNCHANGED << bpm, instrument_program >>
    /\ rerun_unclicked

SetBpm(b) ==
    /\ b # bpm
    /\ bpm' = b
    /\ UNCHANGED << dna_input, instrument_program >>
    /\ rerun_unclicked

SelectInstrument(p) ==
    /\ p # instrument_program
    /\ instrument_program' = p
    /\ UNCHANGED << dna_input, bpm >>
    /\ rerun_unclicked

ApplyRun(clicked, r) ==
    /\ button' = clicked
    /\ ui' = r.ui
    /\ exc' = r.exc
    /\ files' = r.files
    /\ midi_path' = r.midi_path
    /\ content' = r.content
    /\ mixer' = r.mixer
    /\ download' = r.download
    /\ UNCHANGED << dna_input, bpm, instrument_program, pc, value, encoded >>

ClickPlay ==
    /\ Cardinality(files) < MaxTmp
    /\ \E io \in SaveOutcomes, outcome \in PlayOutcomes : ApplyRun("play", play_clicked(io, outcome))

ClickDownload ==
    /\ Cardinality(files) < MaxTmp
    /\ \E io \in SaveOutcomes, rd \in ReadOutcomes : ApplyRun("download", download_clicked(io, rd))

Next ==
    \/ \E c \in UiAlphabet : TypeChar(c)
    \/ ClearInput
    \/ \E b \in UiBpms : SetBpm(b)
    \/ \E p \in INSTRUMENTS : SelectInstrument(p)
    \/ ClickPlay
    \/ ClickDownload

Spec == Init /\ [][Next]_vars

(***************************************************************************)
(* Direct calls.  The arguments are drawn by Init; one action makes the    *)
(* call into an empty temporary file at path 1.                            *)
(***************************************************************************)
CallAlphabet == {"A", "T", "C", "G", "x"}
TextAlphabet == {"A", "T", "C", "G", "a", "g", "x", "1", "U+FB06"}
ProgramArgs == {-1, 81, 127, 128}
DeltaArgs == (0..MaxDelta) \cup {2097151, 2097152, 268435455}

InitCall(texts, bpms, programs, values) ==
    /\ dna_input \in texts
    /\ bpm \in bpms
    /\ instrument_program \in programs
    /\ files = {1}
    /\ midi_path = 1
    /\ content = << >>
    /\ button = "none"
    /\ ui = {}
    /\ exc = "none"
    /\ mixer = "idle"
    /\ download = << >>
    /\ pc = "ready"
    /\ value \in values
    /\ encoded = << >>

\* dna_to_midi_file(dna_sequence, midi_path, bpm=bpm, program=program)
CallEncode ==
    /\ pc = "ready"
    /\ \E io \in SaveOutcomes :
         LET r == dna_to_midi_file(dna_input, content, bpm, instrument_program, io)
         IN  /\ exc' = r.exc
             /\ content' = r.content
    /\ pc' = "done"
    /\ UNCHANGED << dna_input, bpm, instrument_program, files, midi_path, button,
                    ui, mixer, download, value, encoded >>

\* lines 92 and 99: filter the text, then encode what is kept
CallTranslate ==
    /\ pc = "ready"
    /\ LET r == dna_to_midi_file(filter_bases(dna_input), content, bpm,
                                 instrument_program, "ok")
       IN  /\ exc' = r.exc
           /\ content' = r.content
    /\ pc' = "done"
    /\ UNCHANGED << dna_input, bpm, instrument_program, files, midi_path, button,
                    ui, mixer, download, value, encoded >>

\* the delta-time encoder applied to value
CallEncodeDelta ==
    /\ pc = "ready"
    /\ encoded' = encode_variable_int(value)
    /\ pc' = "done"
    /\ UNCHANGED << dna_input, bpm, instrument_program, files, midi_path, content,
                    button, ui, exc, mixer, download, value >>

InitEncode == InitCall(SeqsUpTo(CallAlphabet, MaxSeqLen), UiBpms, ProgramArgs, {0})
SpecEncode == InitEncode /\ [][CallEncode]_vars

InitTranslate == InitCall(SeqsUpTo(TextAlphabet, MaxSeqLen), {BpmDefault}, {ProgramDefault}, {0})
SpecTranslate == InitTranslate /\ [][CallTranslate]_vars

InitTempo == InitCall(SeqsUpTo({"A"}, 1), BpmMin..BpmMax, INSTRUMENTS, {0})
SpecTempo == InitTempo /\ [][CallEncode]_vars

InitDelta == InitCall({<< >>}, {BpmDefault}, {ProgramDefault}, DeltaArgs)
SpecDelta == InitDelta /\ [][CallEncodeDelta]_vars

(***************************************************************************)
(* Reading a file back: a decoder of variable-length quantities and of the *)
(* track's event stream, written from the Standard MIDI File format and    *)
(* independent of the encoder above.                                       *)
(***************************************************************************)
RECURSIVE DecodeFrom(_, _, _)
\* the quantity starting at bs[i]: its value and the index after it (0: malformed)
DecodeFrom(bs, i, acc) ==
    IF i > Len(bs) THEN [value |-> -1, next |-> 0]
    ELSE IF bs[i] < 128 THEN [value |-> acc * 128 + bs[i], next |-> i + 1]
    ELSE DecodeFrom(bs, i + 1, acc * 128 + (bs[i] - 128))

decodeVLQ(bs) == DecodeFrom(bs, 1, 0)

Malformed == [delta |-> -1, status |-> -1, meta |-> -1, data |-> << >>]

RECURSIVE ParseEvents(_, _, _)
\* the events from bs[i] to the end of bs; running: the status a data byte continues
ParseEvents(bs, i, running) ==
    IF i > Len(bs) THEN << >>
    ELSE LET d == DecodeFrom(bs, i, 0)
             j == d.next
         IN  IF j = 0 \/ j > Len(bs) THEN << Malformed >>
             ELSE IF bs[j] = 255
             THEN LET l == DecodeFrom(bs, j + 2, 0)
                  IN  IF l.next = 0 \/ l.next + l.value - 1 > Len(bs) THEN << Malformed >>
                      ELSE << [delta |-> d.value, status |-> 255, meta |-> bs[j + 1],
                               data |-> SubSeq(bs, l.next, l.next + l.value - 1)] >>
                           \o ParseEvents(bs, l.next + l.value, -1)
             ELSE LET st == IF bs[j] >= 128 THEN bs[j] ELSE running
                      k  == IF bs[j] >= 128 THEN j + 1 ELSE j
                      n  == IF st \div 16 \in {12, 13} THEN 1 ELSE 2
                  IN  IF st < 128 \/ k + n - 1 > Len(bs) THEN << Malformed >>
                      ELSE << [delta |-> d.value, status |-> st, meta |-> -1,
                               data |-> SubSeq(bs, k, k + n - 1)] >>
                           \o ParseEvents(bs, k + n, st)

HeaderLen == 4 + 4 + 6    \* "MThd", 4 length bytes, 6 bytes of fields
ChunkHeadLen == 4 + 4     \* a chunk's tag and its 4 length bytes

FromBigEndian(bs) == LET RECURSIVE F(_, _)
                         F(i, acc) == IF i > Len(bs) THEN acc ELSE F(i + 1, acc * 256 + bs[i])
                     IN  F(1, 0)

\* the body of the track chunk of a whole file: everything after the chunk's head
TrackBody(file) == SubSeq(file, HeaderLen + ChunkHeadLen + 1, Len(file))
TrackEvents(file) == ParseEvents(TrackBody(file), 1, -1)

Returned == pc = "done" /\ exc = "none"

\* the pitch the specification gives each symbol
PitchOf(c) == CASE c \in {"A", "a"} -> 60 [] c \in {"T", "t"} -> 62
                [] c \in {"C", "c"} -> 64 [] c \in {"G", "g"} -> 67

\* the pitches of the characters of s that are one of A, T, C, G in either case
ClaimedPitches(s) ==
    LET kept == SelectSeq(s, LAMBDA c : c \in {"A", "T", "C", "G", "a", "t", "c", "g"})
    IN  [i \in 1..Len(kept) |-> PitchOf(kept[i])]

\* the pitches of the note-on events of a file, in order
NoteOnPitches(file) ==
    LET ons == SelectSeq(TrackEvents(file), LAMBDA e : e.status = 144)
    IN  [i \in 1..Len(ons) |-> ons[i].data[1]]

(***************************************************************************)
(* C1.  Filtering then encoding yields one note per character of the text  *)
(* that is one of A/T/C/G in either case, with pitch A->60, T->62, C->64,  *)
(* G->67, in input order; every other character yields nothing.           *)
(* Checked under SpecTranslate.                                            *)
(***************************************************************************)
C1_NotesFollowInput == Returned => NoteOnPitches(content) = ClaimedPitches(dna_input)

C3_TrackLengthExact ==
    (Returned /\ ClaimedPitches(dna_input) # << >>) =>
        LET ev == TrackEvents(content)
        IN  /\ SubSeq(content, HeaderLen + 1, HeaderLen + 4) = << 77, 84, 114, 107 >>
            /\ FromBigEndian(SubSeq(content, HeaderLen + 5, HeaderLen + ChunkHeadLen))
                 = Len(content) - (HeaderLen + ChunkHeadLen)
            /\ Malformed \notin {ev[i] : i \in 1..Len(ev)}
            /\ ev[1].status = 192
            /\ ev[Len(ev)].status = 255 /\ ev[Len(ev)].meta = 47
            /\ \A i \in 1..(Len(ev) - 1) : ~(ev[i].status = 255 /\ ev[i].meta = 47)

C3_Witness ==
    /\ Returned
    /\ Len(ClaimedPitches(dna_input)) = 3
    /\ FromBigEndian(SubSeq(content, HeaderLen + 5, HeaderLen + ChunkHeadLen)) = 41

(***************************************************************************)
(* C4.  The event stream is: one program change (delta 0, channel 0, the   *)
(* program), one tempo meta-event (delta 0), per note in input order a     *)
(* note-on (delta 0, velocity 100) then the note-off of the same pitch     *)
(* (delta 200, velocity 100), and last one end-of-track (delta 0); so at   *)
(* most one note sounds at any point and none at the end.                  *)
(***************************************************************************)
ExpectedNoteEvents(pitches) ==
    Flatten([i \in 1..Len(pitches) |->
        << [delta |-> 0, status |-> 144, meta |-> -1, data |-> << pitches[i], 100 >>],
           [delta |-> 200, status |-> 128, meta |-> -1, data |-> << pitches[i], 100 >>] >>])

RECURSIVE MaxSounding(_, _, _)
\* the largest number of notes sounding at once, -1 if a note is left sounding
MaxSounding(ev, on, most) ==
    IF ev = << >> THEN (IF on = {} THEN most ELSE -1)
    ELSE LET e   == Head(ev)
             on2 == IF e.status = 144 THEN on \cup {e.data[1]}
                    ELSE IF e.status = 128 THEN on \ {e.data[1]} ELSE on
             m2  == IF Cardinality(on2) > most THEN Cardinality(on2) ELSE most
         IN  MaxSounding(Tail(ev), on2, m2)

C4_EventStreamShape ==
    Returned =>
        LET ev == TrackEvents(content)
            n  == Len(ev)
        IN  /\ n = 3 + 2 * Len(ClaimedPitches(dna_input))
            /\ ev[1] = [delta |-> 0, status |-> 192, meta |-> -1,
                        data |-> << instrument_program >>]
            /\ ev[2].delta = 0 /\ ev[2].status = 255 /\ ev[2].meta = 81
            /\ SubSeq(ev, 3, n - 1) = ExpectedNoteEvents(ClaimedPitches(dna_input))
            /\ ev[n] = [delta |-> 0, status |-> 255, meta |-> 47, data |-> << >>]
            /\ MaxSounding(ev, {}, 0) \in {0, 1}

C4_Witness ==
    /\ Returned
    /\ dna_input = << "G", "x", "A", "A" >>
    /\ MaxSounding(TrackEvents(content), {}, 0) = 1

(***************************************************************************)
(* C5.  A program number outside 0..127 makes the call fail with an error  *)
(* that reaches the caller; nothing is written to the file and the value   *)
(* is not clamped or wrapped into a byte.                                  *)
(***************************************************************************)
C5_OutOfRangeRaises ==
    (pc = "done" /\ instrument_program \notin 0..127) =>
        (exc = "ValueError" /\ content = << >>)

C5_Witness ==
    pc = "done" /\ instrument_program = 128 /\ exc = "ValueError" /\ dna_input = << "A" >>

(***************************************************************************)
(* C6.  A Play or Download click on a text with no recognized symbol after *)
(* upper-casing and filtering reports a validation error and produces no   *)
(* file: no temporary file is created, the encoder is not called, nothing  *)
(* is played and no download is offered.                                   *)
(***************************************************************************)
C6_EmptyInputRejected ==
    [][(button' # "none" /\ filter_bases(dna_input') = << >>) =>
         /\ ui' = {"error_invalid"}
         /\ exc' = "none"
         /\ files' = files
         /\ midi_path' = 0
         /\ content' = << >>
         /\ mixer' = "idle"
         /\ download' = << >>]_vars

C6_Witness ==
    /\ button = "download"
    /\ dna_input = << "x", "x" >>
    /\ ui = {"error_invalid"}

(***************************************************************************)
(* C7.  The delta-time encoding round-trips: decoding the bytes gives the  *)
(* integer back and consumes all of them; every byte but the last has its  *)
(* high bit set, the last has it clear, the 7-bit groups are most          *)
(* significant first, and 0 is the single byte 00.                         *)
(***************************************************************************)
C7_VlqRoundTrip ==
    pc = "done" =>
        /\ Len(encoded) >= 1
        /\ decodeVLQ(encoded) = [value |-> value, next |-> Len(encoded) + 1]
        /\ \A i \in 1..Len(encoded) : encoded[i] \in 0..255
        /\ \A i \in 1..(Len(encoded) - 1) : encoded[i] >= 128
        /\ encoded[Len(encoded)] < 128
        /\ (value = 0 => encoded = << 0 >>)
        /\ (value = 127 => encoded = << 127 >>)
        /\ (value = 128 => encoded = << 129, 0 >>)
        /\ (value = 200 => encoded = << 129, 72 >>)
        /\ (value = 16383 => encoded = << 255, 127 >>)
        /\ (value = 16384 => encoded = << 129, 128, 0 >>)

C7_Witness == pc = "done" /\ value = 16384 /\ Len(encoded) = 3

(***************************************************************************)
(* C8.  For every slider tempo 60..240 the tempo meta-event carries the    *)
(* integer nearest to 60000000 / bpm in exactly 3 big-endian bytes, below  *)
(* 2^24; for 120 it is 500000.  The call never fails on the tempo.         *)
(***************************************************************************)
C8_TempoBytes ==
    /\ (pc = "done" => exc # "ValueError")
    /\ Returned =>
         LET e == TrackEvents(content)[2]
             t == FromBigEndian(e.data)
             d == 60000000 - t * bpm
         IN  /\ e.status = 255 /\ e.meta = 81 /\ Len(e.data) = 3
             /\ t \in 0..(Pow(2, 24) - 1)
             /\ 2 * (IF d < 0 THEN -d ELSE d) <= bpm
             /\ (bpm = 120 => t = 500000)

C8_Witness ==
    /\ Returned
    /\ bpm = 70
    /\ TrackEvents(content)[2].data = << 13, 20, 55 >>

(***************************************************************************)
(* C9.  A playback failure during Play is caught where playback is called: *)
(* nothing escapes the run, the failure is shown as a message, the rest of *)
(* the page (to the footer) is rendered and the file is removed.           *)
(***************************************************************************)
C9_PlaybackFailureCaught ==
    (button = "play" /\ mixer = "failed") =>
        /\ exc = "none"
        /\ {"playback_error", "footer"} \subseteq ui
        /\ midi_path \notin files

C9_Witness == button = "play" /\ mixer = "failed" /\ "footer" \in ui

(***************************************************************************)
(* C10.  Every temporary file a Play or Download click creates is deleted  *)
(* before the run ends, on every path: after any sequence of clicks no     *)
(* temporary file remains.                                                 *)
(***************************************************************************)
C10_NoTemporaryFileRemains == files = {}

====
